---- MODULE Spec2Model ----
(***************************************************************************)
(* Model of location_api (views.py, utils.py): the identify_location       *)
(* request handler, MapMarker.latlon_to_pixel / draw_arrow, the box        *)
(* selection, fallback box and label callout of annotate_building, and     *)
(* extract_between_markers.                                                *)
(*                                                                         *)
(* Numbers.  Python floats are modelled as exact rationals on a grid:      *)
(*   - geographic coordinates of a request in units of 1/10000 degree;     *)
(*   - detector box coordinates in units of 1/CoordDen pixel;              *)
(*   - the random fractions v1, v2 in units of 1/VDen.                     *)
(* int(x) is truncation toward zero (Trunc).                               *)
(***************************************************************************)
EXTENDS Integers, Sequences, FiniteSets, TLC

VARIABLES
    \* ---- identify_location, one entry per in-flight request ----
    pc,             \* position of each request in identify_location
    body,           \* request.body of each request
    result,         \* local `result` (query_gemini_location's return value)
    building_name,  \* local `building_name`
    det,            \* annotate_building locals: image read by yolo, box list, best_box
    resp,           \* the response of each request
    \* ---- process-wide / file-system state shared by all requests ----
    building_png,   \* content of ./building.png
    output_map_png, \* content of output_map.png
    gen_draws,      \* number of next(gen) calls served by the module-level generator
    \* ---- a direct (sequential) caller of annotate_building ----
    call,           \* arguments, locals and return value of the last call
    \* ---- a MapMarker object and its last two latlon_to_pixel calls ----
    marker, cur, prev

hvars == <<pc, body, result, building_name, det, resp, building_png, output_map_png>>
avars == <<call>>
mvars == <<marker, cur, prev>>
vars  == <<pc, body, result, building_name, det, resp, building_png, output_map_png,
           gen_draws, call, marker, cur, prev>>

(***************************************************************************)
(* Bounds of the model.                                                    *)
(***************************************************************************)
NReqs     == 2   \* requests in flight at once
MaxDraws  == 2   \* cap on the counted next(gen) calls
VDen      == 20  \* grid of the random fractions: v = k / VDen
CoordDen  == 2   \* grid of detector coordinates: x = k / CoordDen pixels
MaxCoord  == 3   \* largest detector coordinate, in 1/CoordDen pixels
MaxBoxes  == 2   \* longest detector box list
MaxGeo    == 2   \* corner coordinates of a MapMarker frame range over 0..MaxGeo

Reqs == 1..NReqs

(***************************************************************************)
(* Generic helpers.                                                        *)
(***************************************************************************)
\* int(n/d) for d > 0: Python's int() truncates toward zero.
Trunc(n, d) == IF n >= 0 THEN n \div d ELSE -((-n) \div d)

SetMin(S) == CHOOSE m \in S : \A e \in S : m <= e
SetMax(S) == CHOOSE m \in S : \A e \in S : m >= e

SeqsUpTo(S, n) == UNION {[1..k -> S] : k \in 0..n}

(***************************************************************************)
(* extract_between_markers (views.py 19-34).  A text is a sequence of      *)
(* one-character strings.  A label is absent (None) or a text.             *)
(***************************************************************************)
NoneLabel == [isNone |-> TRUE,  text |-> <<>>]
Str(s)    == [isNone |-> FALSE, text |-> s]

OpenMarker  == <<"/", "*", "*", "*">>
CloseMarker == <<"*", "*", "*", "/">>

\* text[i..i+3] is the marker m.
MarkerAt(text, i, m) ==
    /\ i >= 1
    /\ i + 3 <= Len(text)
    /\ \A k \in 1..4 : text[i + k - 1] = m[k]

\* str.strip(): drop leading and trailing whitespace.
RECURSIVE LStrip(_)
LStrip(s) == IF s # <<>> /\ Head(s) = " " THEN LStrip(Tail(s)) ELSE s
RECURSIVE RStrip(_)
RStrip(s) == IF s # <<>> /\ s[Len(s)] = " " THEN RStrip(SubSeq(s, 1, Len(s) - 1)) ELSE s
Strip(s) == RStrip(LStrip(s))

\* re.search(r'/\*\*\*(.*?)\*\*\*/', text, re.DOTALL): the leftmost opening marker
\* that is followed by a closing marker, and (non-greedy) the nearest such closing
\* marker; group(1).strip() on a match, None otherwise.
ExtractBetweenMarkers(text) ==
    LET Matches == {p \in (1..Len(text)) \X (1..Len(text)) :
                        /\ MarkerAt(text, p[1], OpenMarker)
                        /\ p[2] >= p[1] + 4
                        /\ MarkerAt(text, p[2], CloseMarker)}
    IN  IF Matches = {} THEN NoneLabel
        ELSE LET i == SetMin({p[1] : p \in Matches})
                 j == SetMin({p[2] : p \in {q \in Matches : q[1] = i}})
             IN  Str(Strip(SubSeq(text, i + 4, j - 1)))

(***************************************************************************)
(* MapMarker.latlon_to_pixel (views.py 57-82).  corners is the dict of     *)
(* four (lat, lon) pairs; width, height the map image size.                *)
(***************************************************************************)
Corners(tl, tr, bl, br) ==
    [top_left |-> tl, top_right |-> tr, bottom_left |-> bl, bottom_right |-> br]

CornerLats(c) == {c.top_left[1], c.top_right[1], c.bottom_left[1], c.bottom_right[1]}
CornerLons(c) == {c.top_left[2], c.top_right[2], c.bottom_left[2], c.bottom_right[2]}

\* A frame whose corner box collapses a dimension: the division raises.
Degenerate(c) ==
    \/ SetMax(CornerLats(c)) = SetMin(CornerLats(c))
    \/ SetMax(CornerLons(c)) = SetMin(CornerLons(c))

NoPixel == [raised |-> TRUE, x |-> 0, y |-> 0]

\* latlon_to_pixel without the latitude inversion of line 80 (y grows northward).
MirroredLatlonToPixel(c, width, height, lat, lon) ==
    LET lat_min == SetMin(CornerLats(c))
        lat_max == SetMax(CornerLats(c))
        lon_min == SetMin(CornerLons(c))
        lon_max == SetMax(CornerLons(c))
    IN  IF Degenerate(c) THEN NoPixel
        ELSE [raised |-> FALSE,
              x |-> Trunc((lon - lon_min) * width, lon_max - lon_min),
              y |-> Trunc((lat - lat_min) * height, lat_max - lat_min)]

LatlonToPixel(c, width, height, lat, lon) ==
    LET lat_min == SetMin(CornerLats(c))
        lat_max == SetMax(CornerLats(c))
        lon_min == SetMin(CornerLons(c))
        lon_max == SetMax(CornerLons(c))
    IN  IF Degenerate(c) THEN NoPixel   \* ZeroDivisionError
        ELSE [raised |-> FALSE,
              x |-> Trunc((lon - lon_min) * width, lon_max - lon_min),
              y |-> Trunc((lat_max - lat) * height, lat_max - lat_min)]

(***************************************************************************)
(* annotate_building (views.py 166-240).                                   *)
(* An image is [id, w, h]: id names the photo it shows.  A detector box is *)
(* <<x1, y1, x2, y2>> in 1/CoordDen pixels; best_box is <<>> (None) or     *)
(* four integer pixels.                                                    *)
(***************************************************************************)
NoBox   == <<>>
NoImage == [id |-> 0, w |-> 0, h |-> 0]

\* area = (x2 - x1) * (y2 - y1), line 195 (in 1/CoordDen^2 square pixels)
Area(box) == (box[3] - box[1]) * (box[4] - box[2])

\* [int(x1), int(y1), int(x2), int(y2)], line 198
IntBox(box) == <<Trunc(box[1], CoordDen), Trunc(box[2], CoordDen),
                 Trunc(box[3], CoordDen), Trunc(box[4], CoordDen)>>

\* The loop of lines 189-198 from box i on, with the running max_area and best_box.
RECURSIVE SelectLoop(_, _, _, _)
SelectLoop(boxes, i, max_area, best_box) ==
    IF i > Len(boxes) THEN best_box
    ELSE IF Area(boxes[i]) > max_area
         THEN SelectLoop(boxes, i + 1, Area(boxes[i]), IntBox(boxes[i]))
         ELSE SelectLoop(boxes, i + 1, max_area, best_box)

\* max_area = 0; best_box = None; for ... (lines 189-198)
SelectBox(boxes) == SelectLoop(boxes, 1, 0, NoBox)

\* random.uniform(0, 0.2), random.uniform(0.8, 1) (lines 160-161), in 1/VDen.
\* uniform(a, b) computes a + (b - a) * random() with random() < 1: in doubles
\* 0.2 * random() stays below 0.2, while 0.8 + (1 - 0.8) * random() can round to 1.0.
VPairs == {v \in (0..VDen) \X (0..VDen) :
              /\ 10 * v[1] < 2 * VDen
              /\ 10 * v[2] >= 8 * VDen}

\* Line 205 with y2 taken from v1 instead of v2.
FallbackBoxSlip(w, h, v) ==
    <<Trunc(w * v[1], VDen), Trunc(h * v[1], VDen),
      Trunc(w * v[2], VDen), Trunc(h * v[1], VDen)>>

\* best_box = [int(w*v1), int(h*v1), int(w*v2), int(h*v2)], line 205
FallbackBox(w, h, v) ==
    <<Trunc(w * v[1], VDen), Trunc(h * v[1], VDen),
      Trunc(w * v[2], VDen), Trunc(h * v[2], VDen)>>

\* draw.textbbox((0, 0), label, font=font), line 218: PIL tests "\n" in text,
\* which raises TypeError when label is None.
TextBBoxRaises(label) == label.isNone

\* text_h of a label drawn with ImageFont.load_default(120) (lines 212-220): an
\* empty text measures (0, 0, 0, 0); the height of any other text is font data.
TextHeights(label) == IF label.text = <<>> THEN {0} ELSE {100}

\* bg_y1 = y1 - text_h - 20 if y1 - text_h - 20 > 0 else best_box[3], line 225
CalloutTop(best_box, text_h) ==
    IF best_box[2] - text_h - 20 > 0 THEN best_box[2] - text_h - 20 ELSE best_box[4]

\* The value annotate_building returns: the JPEG of the opened image with the
\* rectangle, callout and text drawn on it (lines 208-240).
Annotated(img, best_box, label, text_h) ==
    [id |-> img.id, w |-> img.w, h |-> img.h, box |-> best_box,
     label |-> label, bg_y1 |-> CalloutTop(best_box, text_h)]

NoAnnotated == [id |-> 0, w |-> 0, h |-> 0, box |-> NoBox, label |-> NoneLabel, bg_y1 |-> 0]

Labels == {NoneLabel, Str(<<>>), Str(<<"A">>)}

\* What the detector may report for an image: for the smallest images every list of
\* up to MaxBoxes boxes on the coordinate grid (x1 <= x2, y1 <= y2, inside the
\* image); for larger ones no box or the whole frame.
GridBoxes(img) ==
    {b \in (0..MaxCoord) \X (0..MaxCoord) \X (0..MaxCoord) \X (0..MaxCoord) :
        /\ b[1] <= b[3] /\ b[3] <= img.w * CoordDen
        /\ b[2] <= b[4] /\ b[4] <= img.h * CoordDen}

DetectorOutputs(img) ==
    IF img.w * CoordDen <= MaxCoord + 1 /\ img.h * CoordDen <= MaxCoord + 1
    THEN SeqsUpTo(GridBoxes(img), MaxBoxes)
    ELSE {<<>>, << <<0, 0, img.w * CoordDen, img.h * CoordDen>> >>}

(***************************************************************************)
(* Requests and the values identify_location handles (views.py 244-345).   *)
(* A JSON object is a record with the set of its keys; the value of an     *)
(* absent key is a filler that the model never reads without testing keys. *)
(***************************************************************************)
Photos == {[id |-> 1, w |-> 2, h |-> 3], [id |-> 2, w |-> 4, h |-> 4]}

\* direction: a JSON number, or numeric text such as "0"
Directions == {[type |-> "int", val |-> 0], [type |-> "str", val |-> 0]}
NoDirection == [type |-> "none", val |-> 0]

\* gps values in 1/10000 degree: (32.9892, -96.7502)
GpsPoints == {<<329892, -967502>>}

GpsDicts == {[keys |-> k,
              latitude  |-> IF "latitude"  \in k THEN p[1] ELSE 0,
              longitude |-> IF "longitude" \in k THEN p[2] ELSE 0] :
                 k \in SUBSET {"latitude", "longitude"}, p \in GpsPoints}
NoGps == [keys |-> {}, latitude |-> 0, longitude |-> 0]

Fields == {"direction", "gps", "image_base64"}

DataDicts == {[keys |-> k,
               direction    |-> IF "direction" \in k THEN d ELSE NoDirection,
               gps          |-> IF "gps" \in k THEN g ELSE NoGps,
               image_base64 |-> IF "image_base64" \in k THEN ph ELSE NoImage] :
                  k \in SUBSET Fields, d \in Directions, g \in GpsDicts, ph \in Photos}
EmptyDict == [keys |-> {}, direction |-> NoDirection, gps |-> NoGps, image_base64 |-> NoImage]

\* request.body: text that json.loads accepts (with the object it yields) or rejects
Bodies == {[json_ok |-> TRUE, data |-> d] : d \in DataDicts}
            \cup {[json_ok |-> FALSE, data |-> EmptyDict]}
NoBody == [json_ok |-> FALSE, data |-> EmptyDict]

\* The corners dict of lines 272-277, in 1/10000 degree, and the map image size
\* (map_png.png is a deployment file).
ConfiguredCorners ==
    Corners(<<329956, -967562>>, <<329956, -967443>>,
            <<329828, -967562>>, <<329828, -967443>>)
MapImage == [w |-> 1000, h |-> 1000]

\* What the model may answer (response.text of line 54): a marked answer, an answer
\* with no marker, an empty marked answer, an unclosed marker.
GeminiTexts ==
    { <<"x", "/", "*", "*", "*", " ", "A", " ", "*", "*", "*", "/", "x">>,
      <<"A">>,
      <<"/", "*", "*", "*", " ", "*", "*", "*", "/">>,
      <<"/", "*", "*", "*", "A">> }
GeminiErrors == {"quota exceeded"}

\* query_gemini_location's return values (utils.py 42-62)
QuerySuccess(text) ==
    [keys |-> {"success", "location", "model"}, success |-> TRUE,
     location |-> text, model |-> "gemini-2.5-pro", error |-> ""]
QueryFailure(e) ==
    [keys |-> {"success", "error"}, success |-> FALSE,
     location |-> <<>>, model |-> "", error |-> e]
QueryGeminiLocation ==
    {QuerySuccess(t) : t \in GeminiTexts} \cup {QueryFailure(e) : e \in GeminiErrors}
NoResult == [keys |-> {}, success |-> FALSE, location |-> <<>>, model |-> "", error |-> ""]

\* img.rotate(-90, expand=True), line 319: the same photo, sides swapped
Rotate(photo) == [id |-> photo.id, w |-> photo.h, h |-> photo.w]

\* Responses.  An exception that leaves identify_location is not a JsonResponse:
\* `unhandled` names it and the server answers 500 without a JSON body.
NoResp == [status |-> 0, unhandled |-> "", keys |-> {}, error |-> "",
           location_info |-> NoneLabel, labeled_image |-> NoAnnotated]
ErrorResponse(code, msg) ==
    [status |-> code, unhandled |-> "", keys |-> {"success", "error"}, error |-> msg,
     location_info |-> NoneLabel, labeled_image |-> NoAnnotated]
Unhandled(exc) ==
    [status |-> 500, unhandled |-> exc, keys |-> {}, error |-> "",
     location_info |-> NoneLabel, labeled_image |-> NoAnnotated]
OkResponse(name, img) ==
    [status |-> 200, unhandled |-> "",
     keys |-> {"success", "direction", "gps", "location_info", "labeled_image", "model"},
     error |-> "", location_info |-> name, labeled_image |-> img]

NoArrow == [drawn |-> FALSE, x |-> 0, y |-> 0, angle |-> 0]
NoDet   == [src |-> NoImage, boxes |-> <<>>, best_box |-> NoBox, out |-> NoAnnotated]
NoCall  == [stage |-> "none", img |-> NoImage, boxes |-> <<>>, label |-> NoneLabel,
            picked |-> NoBox, best_box |-> NoBox, text_h |-> 0, raised |-> FALSE,
            out |-> NoAnnotated]
NoMarker == [corners |-> ConfiguredCorners, width |-> 0, height |-> 0]
NoPoint  == [called |-> FALSE, lat |-> 0, lon |-> 0, px |-> NoPixel]

(***************************************************************************)
(* identify_location, step by step.  A step ends where the handler touches *)
(* state that other requests share (output_map.png, ./building.png, gen).  *)
(***************************************************************************)
Receive(r) ==
    /\ pc[r] = "idle"
    /\ \E b \in Bodies : body' = [body EXCEPT ![r] = b]
    /\ pc' = [pc EXCEPT ![r] = "handle"]
    /\ UNCHANGED <<result, building_name, det, resp, building_png, output_map_png,
                   gen_draws, call, marker, cur, prev>>

\* A return or raise of the handler.
Finish(r, where, response) ==
    /\ pc' = [pc EXCEPT ![r] = where]
    /\ resp' = [resp EXCEPT ![r] = response]

\* Lines 257-291 and 341-345: parse, check direction and gps, read the fields,
\* build the MapMarker, draw the arrow, save output_map.png.
DrawMap(r) ==
    /\ pc[r] = "handle"
    /\ LET d  == body[r].data
           px == LatlonToPixel(ConfiguredCorners, MapImage.w, MapImage.h,
                               d.gps.latitude, d.gps.longitude)
       IN  IF ~body[r].json_ok
           THEN Finish(r, "done", ErrorResponse(400, "Invalid JSON format"))
                /\ UNCHANGED output_map_png
           ELSE IF "direction" \notin d.keys \/ "gps" \notin d.keys
           THEN Finish(r, "done",
                       ErrorResponse(400, "Missing required fields: direction and gps"))
                /\ UNCHANGED output_map_png
           ELSE IF "image_base64" \notin d.keys              \* line 270
           THEN Finish(r, "raised", Unhandled("KeyError")) /\ UNCHANGED output_map_png
           ELSE IF "latitude" \notin d.gps.keys \/ "longitude" \notin d.gps.keys
           THEN Finish(r, "raised", Unhandled("KeyError"))   \* lines 284-285
                /\ UNCHANGED output_map_png
           ELSE IF d.direction.type = "str"                  \* line 103: str - int
           THEN Finish(r, "raised", Unhandled("TypeError")) /\ UNCHANGED output_map_png
           ELSE /\ pc' = [pc EXCEPT ![r] = "query"]
                /\ output_map_png' = [drawn |-> TRUE, x |-> px.x, y |-> px.y,
                                      angle |-> d.direction.val - 90]
                /\ UNCHANGED resp
    /\ UNCHANGED <<body, result, building_name, det, building_png,
                   gen_draws, call, marker, cur, prev>>

\* Lines 294-315: the gps check, the upload and the model query, then
\* extract_between_markers(result['location']).
Query(r) ==
    /\ pc[r] = "query"
    /\ LET gps == body[r].data.gps
       IN  IF "latitude" \notin gps.keys \/ "longitude" \notin gps.keys
           THEN Finish(r, "done",
                       ErrorResponse(400, "GPS must contain latitude and longitude"))
                /\ UNCHANGED <<result, building_name>>
           ELSE \E res \in QueryGeminiLocation :
                  /\ result' = [result EXCEPT ![r] = res]
                  /\ IF "location" \notin res.keys             \* line 315
                     THEN Finish(r, "raised", Unhandled("KeyError"))
                          /\ UNCHANGED building_name
                     ELSE /\ building_name' = [building_name EXCEPT
                                                 ![r] = ExtractBetweenMarkers(res.location)]
                          /\ pc' = [pc EXCEPT ![r] = "save"]
                          /\ UNCHANGED resp
    /\ UNCHANGED <<body, det, building_png, output_map_png,
                   gen_draws, call, marker, cur, prev>>

\* Lines 317-320: decode the photo, rotate it, save it as ./building.png.
SavePhoto(r) ==
    /\ pc[r] = "save"
    /\ building_png' = Rotate(body[r].data.image_base64)
    /\ pc' = [pc EXCEPT ![r] = "detect"]
    /\ UNCHANGED <<body, result, building_name, det, resp, output_map_png,
                   gen_draws, call, marker, cur, prev>>

\* annotate_building lines 184-198: yolo reads ./building.png; pick the box.
Detect(r) ==
    /\ pc[r] = "detect"
    /\ \E boxes \in DetectorOutputs(building_png) :
         /\ det' = [det EXCEPT ![r] = [src |-> building_png, boxes |-> boxes,
                                       best_box |-> SelectBox(boxes), out |-> NoAnnotated]]
         /\ pc' = [pc EXCEPT ![r] = IF SelectBox(boxes) = NoBox THEN "fallback"
                                                                ELSE "compose"]
    /\ UNCHANGED <<body, result, building_name, resp, building_png, output_map_png,
                   gen_draws, call, marker, cur, prev>>

\* annotate_building lines 201-205: no box, so open ./building.png for its size
\* and take the next pair of the module-level generator.
Fallback(r) ==
    /\ pc[r] = "fallback"
    /\ gen_draws < MaxDraws
    /\ \E v \in VPairs :
         det' = [det EXCEPT ![r].best_box = FallbackBox(building_png.w, building_png.h, v)]
    /\ gen_draws' = gen_draws + 1
    /\ pc' = [pc EXCEPT ![r] = "compose"]
    /\ UNCHANGED <<body, result, building_name, resp, building_png, output_map_png,
                   call, marker, cur, prev>>

\* annotate_building lines 208-240: open ./building.png, draw the rectangle,
\* measure the label, draw the callout and the text, encode.
Compose(r) ==
    /\ pc[r] = "compose"
    /\ IF TextBBoxRaises(building_name[r])
       THEN Finish(r, "raised", Unhandled("TypeError")) /\ UNCHANGED det
       ELSE /\ \E text_h \in TextHeights(building_name[r]) :
                 det' = [det EXCEPT ![r].out = Annotated(building_png, det[r].best_box,
                                                         building_name[r], text_h)]
            /\ pc' = [pc EXCEPT ![r] = "respond"]
            /\ UNCHANGED resp
    /\ UNCHANGED <<body, result, building_name, building_png, output_map_png,
                   gen_draws, call, marker, cur, prev>>

\* Lines 326-339: the 200 response, or the 500 response carrying result['error'].
Respond(r) ==
    /\ pc[r] = "respond"
    /\ IF result[r].success
       THEN Finish(r, "done", OkResponse(building_name[r], det[r].out))
       ELSE Finish(r, "done", ErrorResponse(500, result[r].error))
    /\ UNCHANGED <<body, result, building_name, det, building_png, output_map_png,
                   gen_draws, call, marker, cur, prev>>

HandlerIdle ==
    /\ pc = [r \in Reqs |-> "idle"]
    /\ body = [r \in Reqs |-> NoBody]
    /\ result = [r \in Reqs |-> NoResult]
    /\ building_name = [r \in Reqs |-> NoneLabel]
    /\ det = [r \in Reqs |-> NoDet]
    /\ resp = [r \in Reqs |-> NoResp]
    /\ building_png = NoImage
    /\ output_map_png = NoArrow

Init ==
    /\ HandlerIdle
    /\ gen_draws = 0
    /\ call = NoCall
    /\ marker = NoMarker
    /\ cur = NoPoint
    /\ prev = NoPoint

Next ==
    \E r \in Reqs :
        \/ Receive(r)
        \/ DrawMap(r)
        \/ Query(r)
        \/ SavePhoto(r)
        \/ Detect(r)
        \/ Fallback(r)
        \/ Compose(r)
        \/ Respond(r)

Spec == Init /\ [][Next]_vars

(***************************************************************************)
(* annotate_building called directly: the arguments and the generator's    *)
(* history are drawn at the start, one action runs the whole function.     *)
(***************************************************************************)
AnnotateImages ==
    {[id |-> 1, w |-> s[1], h |-> s[2]] :
        s \in {<<1, 1>>, <<2, 1>>, <<100, 100>>, <<1200, 1200>>}}

Image100 == [id |-> 1, w |-> 100, h |-> 100]

PendingCall(img, boxes, label) ==
    [stage |-> "pending", img |-> img, boxes |-> boxes, label |-> label,
     picked |-> NoBox, best_box |-> NoBox, text_h |-> 0, raised |-> FALSE,
     out |-> NoAnnotated]

\* annotate_building(image_path, label, '') as one step, lines 184-240.
AnnotateBuilding ==
    /\ call.stage = "pending"
    /\ LET picked == SelectBox(call.boxes)
       IN  /\ IF picked = NoBox
              THEN /\ gen_draws < MaxDraws
                   /\ gen_draws' = gen_draws + 1
              ELSE UNCHANGED gen_draws
           /\ \E v \in (IF picked = NoBox THEN VPairs ELSE {<<0, VDen>>}) :
              \E text_h \in TextHeights(call.label) :
                LET best_box == IF picked = NoBox
                                THEN FallbackBox(call.img.w, call.img.h, v)
                                ELSE picked
                IN  call' = [call EXCEPT
                               !.stage = "returned",
                               !.picked = picked,
                               !.best_box = best_box,
                               !.text_h = text_h,
                               !.raised = TextBBoxRaises(call.label),
                               !.out = IF TextBBoxRaises(call.label) THEN NoAnnotated
                                       ELSE Annotated(call.img, best_box, call.label, text_h)]
    /\ UNCHANGED <<hvars, mvars>>

InitAnnotate ==
    /\ HandlerIdle
    /\ gen_draws \in 0..(MaxDraws - 1)
    /\ \E img \in AnnotateImages : \E boxes \in DetectorOutputs(img) : \E label \in Labels :
         call = PendingCall(img, boxes, label)
    /\ marker = NoMarker /\ cur = NoPoint /\ prev = NoPoint

SpecAnnotate == InitAnnotate /\ [][AnnotateBuilding]_vars

\* The case of an empty detection on a 100x100 image.
InitFallback ==
    /\ HandlerIdle
    /\ gen_draws \in 0..(MaxDraws - 1)
    /\ \E label \in Labels : call = PendingCall(Image100, <<>>, label)
    /\ marker = NoMarker /\ cur = NoPoint /\ prev = NoPoint

SpecFallback == InitFallback /\ [][AnnotateBuilding]_vars

(***************************************************************************)
(* A MapMarker and calls of latlon_to_pixel on it.                         *)
(***************************************************************************)
Geo == 0..MaxGeo
GeoPoints == (-1)..(MaxGeo + 1)

\* Corner dicts of the shape of lines 272-277: top corners at one latitude, bottom
\* corners at another, left and right corners at one longitude each.  The labels
\* may be swapped (n < s, e < w) and a dimension may collapse.
MarkerFrames ==
    {Corners(<<n, w>>, <<n, e>>, <<s, w>>, <<s, e>>) :
        n \in Geo, s \in Geo, w \in Geo, e \in Geo}

MapSizes == {<<1, 1>>, <<3, 2>>}

\* marker.latlon_to_pixel(lat, lon); the caller makes two calls and keeps both
\* results.
LatlonToPixelCall ==
    /\ ~prev.called
    /\ \E lat \in GeoPoints, lon \in GeoPoints :
         cur' = [called |-> TRUE, lat |-> lat, lon |-> lon,
                 px |-> LatlonToPixel(marker.corners, marker.width, marker.height,
                                      lat, lon)]
    /\ prev' = cur
    /\ UNCHANGED <<hvars, avars, gen_draws, marker>>

InitMapper ==
    /\ HandlerIdle
    /\ gen_draws = 0
    /\ call = NoCall
    /\ \E c \in MarkerFrames : \E sz \in MapSizes :
         marker = [corners |-> c, width |-> sz[1], height |-> sz[2]]
    /\ cur = NoPoint
    /\ prev = NoPoint

SpecMapper == InitMapper /\ [][LatlonToPixelCall]_vars

(***************************************************************************)
(* Properties.                                                             *)
(***************************************************************************)
Own(r) == body[r].data.image_base64.id

\* The complete request of the end-to-end case: every field present.
Complete(b) ==
    /\ b.json_ok
    /\ b.data.keys = Fields
    /\ b.data.gps.keys = {"latitude", "longitude"}

\* A parsed body that lacks a required field.
MissingField(b) ==
    /\ b.json_ok
    /\ \/ b.data.keys # Fields
       \/ b.data.gps.keys # {"latitude", "longitude"}

\* C1: a complete request whose direction is the numeric text "0", with a valid
\* image, for which the model query (if reached) returned text, never ends in an
\* unhandled exception; when it ends, it ends in a 200 response that carries a
\* labeled image and the key location_info.
C1_NumericTextDirectionEndsIn200 ==
    \A r \in Reqs :
        (/\ Complete(body[r])
         /\ body[r].data.direction = [type |-> "str", val |-> 0]
         /\ (result[r] = NoResult \/ result[r].success))
        => /\ pc[r] # "raised"
           /\ pc[r] = "done" =>
                /\ resp[r].status = 200
                /\ resp[r].labeled_image # NoAnnotated
                /\ "location_info" \in resp[r].keys

\* C2: a request whose JSON body lacks direction, gps, gps.latitude, gps.longitude
\* or image_base64 never gets past the field checks (so it never draws or saves
\* the debug map) and never raises; when it ends, it ends in a 400 response with a
\* reason string.
C2_MissingFieldEndsIn400 ==
    \A r \in Reqs :
        MissingField(body[r])
        => /\ pc[r] \in {"handle", "done"}
           /\ pc[r] = "done" =>
                /\ resp[r].status = 400
                /\ resp[r].unhandled = ""
                /\ resp[r].error # ""

QueryFailed(r) == result[r].keys = {"success", "error"}

\* C3: when query_gemini_location returned a failure, the handler does not raise,
\* and its response has status 500 and the failure's message as error.
C3_QueryFailureEndsIn500 ==
    \A r \in Reqs :
        QueryFailed(r)
        => /\ pc[r] # "raised"
           /\ pc[r] = "done" =>
                /\ resp[r].status = 500
                /\ resp[r].error = result[r].error

\* The model answered with text that holds no marker.
Unparseable(r) ==
    /\ result[r].success
    /\ ExtractBetweenMarkers(result[r].location) = NoneLabel

\* C4: when the model's text has no marker, the label is absent and
\* annotate_building still completes with a placeholder label: the request does
\* not raise, and once annotate_building has returned, its image is non-empty and
\* labelled with a text.
C4_AbsentLabelStillAnnotates ==
    \A r \in Reqs :
        Unparseable(r)
        => /\ building_name[r] = NoneLabel
           /\ pc[r] # "raised"
           /\ pc[r] \in {"respond", "done"} =>
                /\ det[r].out # NoAnnotated
                /\ ~det[r].out.label.isNone

\* Box i of the list has the largest area, and no earlier box has that area.
FirstLargest(boxes, i) ==
    /\ \A j \in 1..Len(boxes) : Area(boxes[j]) <= Area(boxes[i])
    /\ \A j \in 1..(i - 1) : Area(boxes[j]) < Area(boxes[i])

\* C5: for every non-empty list of detector boxes the selection loop picks the
\* first box of maximum area (truncated to integers).
C5_PicksFirstLargestBox ==
    (call.stage = "returned" /\ call.boxes # <<>>)
    => \E i \in 1..Len(call.boxes) :
          /\ FirstLargest(call.boxes, i)
          /\ call.picked = IntBox(call.boxes[i])

ProperBox(b) == b[1] < b[3] /\ b[2] < b[4]

\* One side of the 100x100 fallback box: 0 <= lo < hi <= 100, 60 <= hi - lo <= 100.
SideIn100(lo, hi) ==
    /\ 0 <= lo /\ lo < hi /\ hi <= 100
    /\ 60 <= hi - lo /\ hi - lo <= 100

FallbackOn100 ==
    /\ call.stage = "returned"
    /\ call.img.w = 100 /\ call.img.h = 100
    /\ call.boxes = <<>>

TwoCalls == prev.called /\ cur.called /\ ~Degenerate(marker.corners)

\* C7 (as claimed): at a fixed latitude a larger longitude gives a larger x, and
\* at a fixed longitude a larger latitude gives a smaller y.
C7_StrictlyMonotonic ==
    TwoCalls
    => /\ (cur.lat = prev.lat /\ cur.lon > prev.lon) => cur.px.x > prev.px.x
       /\ (cur.lon = prev.lon /\ cur.lat > prev.lat) => cur.px.y < prev.px.y

\* C7 (amended): at a fixed latitude a larger longitude never gives a smaller x,
\* and at a fixed longitude a larger latitude never gives a larger y.
C7_WeaklyMonotonic ==
    TwoCalls
    => /\ (cur.lat = prev.lat /\ cur.lon > prev.lon) => cur.px.x >= prev.px.x
       /\ (cur.lon = prev.lon /\ cur.lat > prev.lat) => cur.px.y <= prev.px.y

\* C7 witness: two calls at one longitude, the second at a larger latitude and
\* with a smaller y, on a frame whose corner labels are swapped.
C7_Witness ==
    /\ TwoCalls
    /\ cur.lon = prev.lon /\ cur.lat > prev.lat
    /\ cur.px.y < prev.px.y
    /\ marker.corners.top_left[1] < marker.corners.bottom_left[1]

\* C8: the image a request's detector reads, the image its compositor annotates
\* and the labeled_image of its response all show the photo that request sent.
C8_AnnotatesOwnPhoto ==
    \A r \in Reqs :
        /\ det[r].src # NoImage => det[r].src.id = Own(r)
        /\ det[r].out # NoAnnotated => det[r].out.id = Own(r)
        /\ resp[r].status = 200 => resp[r].labeled_image.id = Own(r)

\* C9: for every image size and every detector output whose boxes have positive
\* area, the box annotate_building draws has x1 < x2 and y1 < y2.
C9_DrawnBoxIsProper ==
    (/\ call.stage = "returned"
     /\ \A i \in 1..Len(call.boxes) : ProperBox(call.boxes[i]))
    => ProperBox(call.best_box)

\* C10: the callout's top edge is y1 - text_h - 20 whenever that is >= 0, and is
\* the box's bottom edge y2 when it is < 0.
C10_CalloutAboveUnlessOffImage ==
    (call.stage = "returned" /\ ~call.raised)
    => LET top == call.best_box[2] - call.text_h - 20
       IN  /\ top >= 0 => call.out.bg_y1 = top
           /\ top < 0  => call.out.bg_y1 = call.best_box[4]

====
